---- MODULE Spec2Model ----
(***************************************************************************)
(* A state-machine model of the gmail-assistant library:                   *)
(*   gmail_auth.py       GmailAuthenticator                                *)
(*   gmail_search.py     GmailSearcher                                     *)
(*   gmail_retriever.py  GmailRetriever                                    *)
(* One GmailAuthenticator and the components bound to it are modelled.     *)
(* Every public method is one action.  The remote service, the operator    *)
(* and the file system are the environment: their answers (a call          *)
(* succeeds or raises, what the list call returns) are the inputs of the   *)
(* actions.  Each action records the externally visible calls it made in   *)
(* `log` and what it returned or raised in `ret`.                          *)
(***************************************************************************)
EXTENDS Integers, Sequences, FiniteSets, TLC

\* ------------------------------------------------------------------ bounds
\* How many service handles are built in one run of the model.
MaxBuilds == 2
\* How many distinct message ids the mailbox holds.
MaxMsg == 2
\* How many ids a caller passes to get_multiple_messages.
MaxIds == 2
\* How many distinct seconds datetime.now() can fall in.
MaxStamp == 1
\* How many times export_search_results is called.
MaxExports == 1

VARIABLES
    credentials_file,   \* TRUE iff the path self.credentials_file exists
    token_file,         \* content of self.token_file: a credential, or NoCreds
    auth_service,       \* GmailAuthenticator.service: a handle, or None
    builds,             \* number of handles build() has created so far
    constructed,        \* the components that exist
    comp_service,       \* component -> its self.service
    files,              \* the export files on disk
    exports,            \* number of export_search_results calls made so far
    ret,                \* what the last operation returned or raised
    log                 \* the remote calls and file writes of the last operation

vars == <<credentials_file, token_file, auth_service, builds,
          constructed, comp_service, files, exports, ret, log>>

\* ------------------------------------------------------------ credentials
\* Python's None for a service handle; handles are numbered 1, 2, ... in the
\* order build() creates them.
None == 0

\* creds = None
NoCreds == [valid |-> FALSE, expired |-> FALSE, refresh_token |-> FALSE,
            origin |-> "none"]

\* What pickle.load can give back: a credential saved by an earlier run, read
\* through the three attributes authenticate() looks at.  A valid credential
\* is not expired.
StoredCreds ==
    {c \in [valid : BOOLEAN, expired : BOOLEAN, refresh_token : BOOLEAN,
            origin : {"stored"}] : c.valid => ~c.expired}

\* flow.run_local_server(port=0): a fresh credential from the consent flow
FlowCreds == [valid |-> TRUE, expired |-> FALSE, refresh_token |-> TRUE,
              origin |-> "flow"]

\* creds.refresh(Request()) when the provider accepts: the same credential
\* object with a new access token
Refreshed(c) == [c EXCEPT !.valid = TRUE, !.expired = FALSE, !.origin = "refresh"]

\* ------------------------------------------------------------------ events
\* One externally visible call: its kind, the service handle it went through
\* (None when it needs none), the credential and the message id or file stamp
\* it was about, and the exception it raised ("none" when it returned).
Event(ev, h, cred, id) ==
    [ev |-> ev, h |-> h, cred |-> cred, id |-> id, err |-> "none"]

\* The same call, raising err
Raising(e, err) == [e EXCEPT !.err = err]

\* print(...) of an error report; the progress and status lines are not
\* modelled
Report(text) == Raising(Event("print", None, NoCreds, 0), text)

NetworkEvents == {"refresh", "consent_flow", "build", "list", "get_metadata",
                  "get_full"}
FetchEvents == {"get_full"}
ExportEvents == {"write_json", "write_csv", "write_txt"}

\* The events of a log that are of kind ev
Only(l, evs) == SelectSeq(l, LAMBDA e : e.ev \in evs)

\* ------------------------------------------------------------------ results
\* The record an operation leaves in `ret`: what it was called with (arg),
\* what the environment answered (listed, failed) and what it returned or
\* raised.  Every field keeps one type so that two records always compare.
NoRet == [op |-> "init", comp |-> "none", raised |-> "none", handle |-> None,
          flag |-> FALSE, count |-> 0, arg |-> <<>>, listed |-> <<>>,
          failed |-> {}, items |-> <<>>, summary |-> {},
          message |-> {}, body |-> <<>>, metadata |-> {}, query |-> <<>>,
          dates |-> <<>>]

\* The environment's answers to one authenticate() call
AuthOutcomes == [refresh : {"ok", "RefreshError", "TransportError"},
                 flow : {"ok", "error"},
                 save : {"ok", "error"},
                 build : {"ok", "error"}]

\* ------------------------------------------------------- GmailAuthenticator
\* The authenticator's state as one record, so that a method that
\* authenticates twice can thread it through.
AuthState == [credentials_file |-> credentials_file, token_file |-> token_file,
              service |-> auth_service, builds |-> builds]

\* GmailAuthenticator.__init__: no service yet.  The files are the
\* operator's: any state of the credentials file and of the token store.
AuthInit ==
    /\ credentials_file \in BOOLEAN
    /\ token_file \in StoredCreds \cup {NoCreds}
    /\ auth_service = None
    /\ builds = 0

\* NeedsNewCreds without its `not creds.valid`
NeedsNewCredsOnlyWhenAbsent(creds) == creds = NoCreds

\* `if not creds or not creds.valid`
NeedsNewCreds(creds) == creds = NoCreds \/ ~creds.valid

\* `if creds and creds.expired and creds.refresh_token`
Refreshable(creds) == creds # NoCreds /\ creds.expired /\ creds.refresh_token

\* _run_oauth_flow(): the interactive consent flow.  Gives [raised, creds, log].
RunOauthFlow(creds, o, before) ==
    LET flow == Event("consent_flow", None, NoCreds, 0) IN
    IF o.flow = "ok"
    THEN [raised |-> "none", creds |-> FlowCreds, log |-> Append(before, flow)]
    ELSE [raised |-> "FlowError", creds |-> creds,
          log |-> Append(before, Raising(flow, "FlowError"))]

\* ObtainCreds without its `except RefreshError`: the rejection propagates
ObtainCredsNoFallback(creds, o) ==
    LET refresh == Event("refresh", None, creds, 0) IN
    IF Refreshable(creds)
    THEN IF o.refresh = "ok"
         THEN [raised |-> "none", creds |-> Refreshed(creds),
               log |-> <<refresh>>]
         ELSE [raised |-> o.refresh, creds |-> creds,
               log |-> <<Raising(refresh, o.refresh)>>]
    ELSE RunOauthFlow(creds, o, <<>>)

\* Lines 60-70: obtain a credential when the loaded one cannot be used.
\* Gives [raised, creds, log].
ObtainCreds(creds, o) ==
    LET refresh == Event("refresh", None, creds, 0) IN
    IF Refreshable(creds)
    THEN CASE o.refresh = "ok" ->
                [raised |-> "none", creds |-> Refreshed(creds),
                 log |-> <<refresh>>]
           [] o.refresh = "RefreshError" ->
                RunOauthFlow(creds, o,
                             <<Raising(refresh, "RefreshError"),
                               Report("Token refresh failed. Re-authenticating...")>>)
           [] OTHER ->
                [raised |-> "TransportError", creds |-> creds,
                 log |-> <<Raising(refresh, "TransportError")>>]
    ELSE RunOauthFlow(creds, o, <<>>)

\* SavesToken with `self._save_token(creds)` moved out of the `if`
SavesTokenAlways(loaded) == TRUE

\* `if not creds or not creds.valid:` ... `self._save_token(creds)`: whether
\* this call writes the token file, given the credential it loaded.
SavesToken(loaded) == NeedsNewCreds(loaded)

\* _save_token(creds): overwrite the token file.  Gives [raised, token, log].
SaveToken(a, creds, o) ==
    IF o.save = "ok"
    THEN [raised |-> "none", token |-> creds,
          log |-> <<Event("save_token", None, creds, 0)>>]
    ELSE [raised |-> "OSError", token |-> a.token_file,
          log |-> <<Raising(Event("save_token", None, creds, 0), "OSError")>>]

\* BuildService without the assignment to self.service
BuildServiceNotCached(a, creds, o) ==
    IF o.build = "ok"
    THEN [raised |-> "none", service |-> a.service, builds |-> a.builds + 1,
          log |-> <<Event("build", a.builds + 1, creds, 0)>>]
    ELSE [raised |-> "HttpError", service |-> a.service, builds |-> a.builds,
          log |-> <<Raising(Event("build", None, creds, 0), "HttpError")>>]

\* build('gmail', 'v1', credentials=creds) and the assignment to self.service.
\* Gives [raised, service, builds, log].
BuildService(a, creds, o) ==
    IF o.build = "ok"
    THEN [raised |-> "none", service |-> a.builds + 1, builds |-> a.builds + 1,
          log |-> <<Event("build", a.builds + 1, creds, 0)>>]
    ELSE [raised |-> "HttpError", service |-> a.service, builds |-> a.builds,
          log |-> <<Raising(Event("build", None, creds, 0), "HttpError")>>]

\* CredentialsMissing with the check left out
CredentialsMissingUnchecked(a) == FALSE

\* `if not os.path.exists(self.credentials_file)`
CredentialsMissing(a) == ~a.credentials_file

\* GmailAuthenticator.authenticate() in authenticator state a, with the
\* environment's answers o.  Gives [raised, value, auth, log]: the exception
\* raised or "none", the handle returned, the authenticator's new state and
\* the calls made.
AuthRun(a, o) ==
    IF CredentialsMissing(a)
    THEN [raised |-> "FileNotFoundError", value |-> None, auth |-> a,
          log |-> <<>>]
    ELSE
      LET loaded == a.token_file
          load   == IF loaded # NoCreds
                    THEN <<Event("load_token", None, loaded, 0)>> ELSE <<>>
          got    == IF NeedsNewCreds(loaded)
                    THEN ObtainCreds(loaded, o)
                    ELSE [raised |-> "none", creds |-> loaded, log |-> <<>>]
          saved  == IF SavesToken(loaded)
                    THEN SaveToken(a, got.creds, o)
                    ELSE [raised |-> "none", token |-> a.token_file, log |-> <<>>]
          built  == BuildService(a, got.creds, o)
      IN  CASE got.raised # "none" ->
                 [raised |-> got.raised, value |-> None, auth |-> a,
                  log |-> load \o got.log]
            [] saved.raised # "none" ->
                 [raised |-> saved.raised, value |-> None, auth |-> a,
                  log |-> load \o got.log \o saved.log]
            [] OTHER ->
                 [raised |-> built.raised,
                  value |-> IF built.raised = "none" THEN built.service ELSE None,
                  auth |-> [a EXCEPT !.token_file = saved.token,
                                     !.service = built.service,
                                     !.builds = built.builds],
                  log |-> load \o got.log \o saved.log \o built.log]

\* Every way authenticate() can go in state a, over the environment's
\* answers
AuthResults(a) == {AuthRun(a, o) : o \in AuthOutcomes}

\* The authenticator's variables after a call that left it in state a
SetAuth(a) ==
    /\ a.builds <= MaxBuilds
    /\ credentials_file' = a.credentials_file
    /\ token_file' = a.token_file
    /\ auth_service' = a.service
    /\ builds' = a.builds

\* auth.authenticate() called by the operator's script
Authenticate ==
    \E r \in AuthResults(AuthState) :
        /\ SetAuth(r.auth)
        /\ ret' = [NoRet EXCEPT !.op = "authenticate", !.comp = "auth",
                                !.raised = r.raised, !.handle = r.value]
        /\ log' = r.log
        /\ UNCHANGED <<constructed, comp_service, files, exports>>

\* GmailAuthenticator.get_service()
GetServiceValue(a) == a.service

GetService ==
    /\ ret' = [NoRet EXCEPT !.op = "get_service", !.comp = "auth",
                            !.handle = GetServiceValue(AuthState)]
    /\ log' = <<>>
    /\ UNCHANGED <<credentials_file, token_file, auth_service, builds,
                   constructed, comp_service, files, exports>>

\* GmailAuthenticator.is_authenticated()
IsAuthenticatedValue(a) == a.service # None

IsAuthenticated ==
    /\ ret' = [NoRet EXCEPT !.op = "is_authenticated", !.comp = "auth",
                            !.flag = IsAuthenticatedValue(AuthState)]
    /\ log' = <<>>
    /\ UNCHANGED <<credentials_file, token_file, auth_service, builds,
                   constructed, comp_service, files, exports>>

\* ---------------------------------------------------------- the environment
\* The operator downloads the client-secret file, or removes it.
OperatorSetsCredentialsFile ==
    /\ credentials_file' = ~credentials_file
    /\ ret' = [NoRet EXCEPT !.op = "env"]
    /\ log' = <<>>
    /\ UNCHANGED <<token_file, auth_service, builds, constructed, comp_service,
                   files, exports>>

\* Time passes: the access token of the stored credential expires.
TokenExpires ==
    /\ token_file # NoCreds
    /\ token_file.valid
    /\ token_file' = [token_file EXCEPT !.valid = FALSE, !.expired = TRUE]
    /\ ret' = [NoRet EXCEPT !.op = "env"]
    /\ log' = <<>>
    /\ UNCHANGED <<credentials_file, auth_service, builds, constructed,
                   comp_service, files, exports>>

\* ------------------------------------------ GmailSearcher / GmailRetriever
\* The two components of the workflow scripts, both bound to the one
\* authenticator (`GmailSearcher(authenticator=auth)`); a component built
\* without one owns a fresh authenticator, which is this model with the
\* component constructed first.
Components == {"searcher", "retriever"}

MsgIds == 1..MaxMsg

\* What messages().list can answer: ids of the mailbox, each once
Listings ==
    {l \in UNION {[1..n -> MsgIds] : n \in 0..MaxMsg} :
        \A i, j \in DOMAIN l : i # j => l[i] # l[j]}

\* What a caller can pass to get_multiple_messages
IdLists == UNION {[1..n -> MsgIds] : n \in 0..MaxIds}

\* A SearchResultItem, and a message in full format
Item(id) == [id |-> id, format |-> "metadata"]
Full(id) == [id |-> id, format |-> "full"]

ComponentInit ==
    /\ constructed = {}
    /\ comp_service = [c \in Components |-> None]

\* __init__(authenticator=auth): self.service = authenticator.get_service()
Construct(c) ==
    /\ c \notin constructed
    /\ constructed' = constructed \cup {c}
    /\ comp_service' = [comp_service EXCEPT ![c] = GetServiceValue(AuthState)]
    /\ ret' = [NoRet EXCEPT !.op = "construct", !.comp = c]
    /\ log' = <<>>
    /\ UNCHANGED <<credentials_file, token_file, auth_service, builds, files, exports>>

\* `if not self.service:`
NotYetAuthenticated(a, svc) == svc = None

\* authenticate() of a component holding svc: authenticate through self.auth
\* unless a handle is held.  Gives [raised, svc, auth, log].
LazyAuth(a, svc, o) ==
    IF NotYetAuthenticated(a, svc)
    THEN LET r == AuthRun(a, o) IN
         [raised |-> r.raised,
          svc |-> IF r.raised = "none" THEN r.value ELSE svc,
          auth |-> r.auth, log |-> r.log]
    ELSE [raised |-> "none", svc |-> svc, auth |-> a, log |-> <<>>]

\* Every way a component's authenticate() can go
LazyResults(a, svc) == {LazyAuth(a, svc, o) : o \in AuthOutcomes}

\* The component's and the authenticator's variables after a call of
\* component c that authenticated as la
SetComponent(c, la) ==
    /\ c \in constructed
    /\ SetAuth(la.auth)
    /\ comp_service' = [comp_service EXCEPT ![c] = la.svc]
    /\ UNCHANGED constructed

\* searcher.authenticate() / retriever.authenticate()
ComponentAuthenticate(c) ==
    \E la \in LazyResults(AuthState, comp_service[c]) :
        /\ SetComponent(c, la)
        /\ ret' = [NoRet EXCEPT !.op = "component_authenticate", !.comp = c,
                                !.raised = la.raised, !.handle = la.svc]
        /\ log' = la.log
        /\ UNCHANGED <<files, exports>>

\* The loop of search(): one metadata get per listed id, from position i on,
\* until one raises.  failAt = i + 1 makes the i-th get raise.
\* Gives [failed, items, log]; items are those appended before the failure.
RECURSIVE FetchMetadata(_, _, _, _)
FetchMetadata(h, listed, failAt, i) ==
    IF i > Len(listed)
    THEN [failed |-> FALSE, items |-> <<>>, log |-> <<>>]
    ELSE LET call == Event("get_metadata", h, NoCreds, listed[i]) IN
         IF failAt = i + 1
         THEN [failed |-> TRUE, items |-> <<>>,
               log |-> <<Raising(call, "HttpError")>>]
         ELSE LET rest == FetchMetadata(h, listed, failAt, i + 1) IN
              [failed |-> rest.failed,
               items |-> <<Item(listed[i])>> \o rest.items,
               log |-> <<call>> \o rest.log]

\* SearchValue when the except handler returns what was collected
SearchValuePartial(fetched) == fetched.items

\* What search() returns after its loop: message_list, or [] from the
\* except handler
SearchValue(fetched) == IF fetched.failed THEN <<>> ELSE fetched.items

\* The try block of search() on handle h: the list call (failAt = 1 makes it
\* raise), then the loop.  Gives [items, log].
RemoteSearch(h, max_results, listed, failAt) ==
    LET list   == Event("list", h, NoCreds, max_results)
        report == Report("Error during search")
    IN  CASE failAt = 1 ->
                [items |-> <<>>, log |-> <<Raising(list, "HttpError"), report>>]
          [] listed = <<>> ->
                [items |-> <<>>, log |-> <<list>>]
          [] OTHER ->
                LET fetched == FetchMetadata(h, listed, failAt, 1) IN
                [items |-> SearchValue(fetched),
                 log |-> <<list>> \o fetched.log
                         \o IF fetched.failed THEN <<report>> ELSE <<>>]

\* One search: the caller's max_results, and the answers of the remote
\* service, which are the ids listed, at most max_results of them, and which
\* call, if any, fails
SearchInputs ==
    {in \in [max_results : {MaxMsg}, listed : Listings, failAt : 0..MaxMsg + 1] :
        /\ Len(in.listed) <= in.max_results
        /\ in.failAt <= Len(in.listed) + 1}

\* The inputs of a call that raised before it made a remote call
NoInput == [max_results |-> 1, listed |-> <<>>, failAt |-> 0]

\* search(query, max_results) after its `if not self.service:
\* self.authenticate()` went as la.  Gives [raised, items, log].
SearchRun(la, in) ==
    IF la.raised # "none"
    THEN [raised |-> la.raised, items |-> <<>>, log |-> la.log]
    ELSE LET r == RemoteSearch(la.svc, in.max_results, in.listed, in.failAt) IN
         [raised |-> "none", items |-> r.items, log |-> la.log \o r.log]

Search(c) ==
    \E la \in LazyResults(AuthState, comp_service[c]) :
      \E in \in IF la.raised = "none" THEN SearchInputs ELSE {NoInput} :
        LET r == SearchRun(la, in) IN
        /\ c = "searcher"
        /\ SetComponent(c, la)
        /\ ret' = [NoRet EXCEPT !.op = "search", !.comp = c,
                                !.raised = r.raised, !.items = r.items,
                                !.listed = in.listed,
                                !.failed = IF in.failAt = 0 THEN {}
                                           ELSE {in.failAt}]
        /\ log' = r.log
        /\ UNCHANGED <<files, exports>>

\* The dates a caller passes, YYYY/MM/DD; "" stands for a date not given
\* (None, or any other value `if after_date:` takes as false)
AfterDates == {"", "2023/01/01"}
BeforeDates == {"", "2023/12/31"}

\* " ".join(query_parts), the query a sequence of pieces of text
RECURSIVE Join(_)
Join(query_parts) ==
    CASE query_parts = <<>> -> <<>>
      [] Len(query_parts) = 1 -> Head(query_parts)
      [] OTHER -> Head(query_parts) \o <<" ">> \o Join(Tail(query_parts))

\* QueryParts with the two bounds appended in the other order
QueryPartsBeforeFirst(after_date, before_date) ==
    (IF before_date # "" THEN <<(<<"before:", before_date>>)>> ELSE <<>>)
        \o (IF after_date # "" THEN <<(<<"after:", after_date>>)>> ELSE <<>>)

\* query_parts of search_by_date_range() after its two appends
QueryParts(after_date, before_date) ==
    (IF after_date # "" THEN <<(<<"after:", after_date>>)>> ELSE <<>>)
        \o (IF before_date # "" THEN <<(<<"before:", before_date>>)>> ELSE <<>>)

\* search_by_date_range(after_date, before_date, max_results): ValueError
\* when query_parts is empty, else search(query, max_results)
SearchByDateRange(c) ==
    \E after_date \in AfterDates, before_date \in BeforeDates :
        LET query_parts == QueryParts(after_date, before_date) IN
        IF query_parts = <<>>
        THEN /\ c = "searcher"
             /\ c \in constructed
             /\ ret' = [NoRet EXCEPT !.op = "search_by_date_range", !.comp = c,
                                     !.raised = "ValueError",
                                     !.dates = <<after_date, before_date>>]
             /\ log' = <<>>
             /\ UNCHANGED <<credentials_file, token_file, auth_service, builds,
                            constructed, comp_service, files, exports>>
        ELSE
          \E la \in LazyResults(AuthState, comp_service[c]) :
            \E in \in IF la.raised = "none" THEN SearchInputs ELSE {NoInput} :
              LET r == SearchRun(la, in) IN
              /\ c = "searcher"
              /\ SetComponent(c, la)
              /\ ret' = [NoRet EXCEPT !.op = "search_by_date_range", !.comp = c,
                                      !.raised = r.raised, !.items = r.items,
                                      !.listed = in.listed,
                                      !.failed = IF in.failAt = 0 THEN {}
                                                 ELSE {in.failAt},
                                      !.dates = <<after_date, before_date>>,
                                      !.query = Join(query_parts)]
              /\ log' = r.log
              /\ UNCHANGED <<files, exports>>

\* The try block of get_message_count(): one list call asking for one
\* result; resultSizeEstimate, or 0 from the except handler.
RemoteCount(h, estimate, fails) ==
    LET list == Event("list", h, NoCreds, 1) IN
    IF fails
    THEN [count |-> 0,
          log |-> <<Raising(list, "HttpError"),
                    Report("Error getting message count")>>]
    ELSE [count |-> estimate, log |-> <<list>>]

\* get_message_count(query) after its lazy authentication went as la.
\* Gives [raised, count, log].
CountRun(la, estimate, fails) ==
    IF la.raised # "none"
    THEN [raised |-> la.raised, count |-> 0, log |-> la.log]
    ELSE LET r == RemoteCount(la.svc, estimate, fails) IN
         [raised |-> "none", count |-> r.count, log |-> la.log \o r.log]

GetMessageCount(c) ==
    \E la \in LazyResults(AuthState, comp_service[c]) :
      \E estimate \in IF la.raised = "none" THEN 0..MaxMsg ELSE {0},
         fails \in IF la.raised = "none" THEN BOOLEAN ELSE {FALSE} :
        LET r == CountRun(la, estimate, fails) IN
        /\ c = "searcher"
        /\ SetComponent(c, la)
        /\ ret' = [NoRet EXCEPT !.op = "get_message_count", !.comp = c,
                                !.raised = r.raised, !.count = r.count,
                                !.failed = IF fails THEN {1} ELSE {}]
        /\ log' = r.log
        /\ UNCHANGED <<files, exports>>

\* The try block of get_full_message() on handle h: the message, or None
\* from the except handler.  A returned message is given as <<message>>,
\* None as <<>>.  Gives [value, log].
RemoteGet(h, id, fails) ==
    LET get == Event("get_full", h, NoCreds, id) IN
    IF fails
    THEN [value |-> <<>>,
          log |-> <<Raising(get, "HttpError"),
                    Report("Error retrieving message")>>]
    ELSE [value |-> <<Full(id)>>, log |-> <<get>>]

\* FullMessageRun without its try/except: the failure of the get propagates
FullMessageRunUncaught(la, id, fails) ==
    IF la.raised # "none"
    THEN [raised |-> la.raised, value |-> <<>>, log |-> la.log]
    ELSE IF fails
    THEN [raised |-> "HttpError", value |-> <<>>,
          log |-> Append(la.log, Raising(Event("get_full", la.svc, NoCreds, id),
                                         "HttpError"))]
    ELSE [raised |-> "none", value |-> <<Full(id)>>,
          log |-> Append(la.log, Event("get_full", la.svc, NoCreds, id))]

\* get_full_message(message_id) after its lazy authentication went as la.
\* Gives [raised, value, log].
FullMessageRun(la, id, fails) ==
    IF la.raised # "none"
    THEN [raised |-> la.raised, value |-> <<>>, log |-> la.log]
    ELSE LET r == RemoteGet(la.svc, id, fails) IN
         [raised |-> "none", value |-> r.value, log |-> la.log \o r.log]

GetFullMessage(c) ==
    \E la \in LazyResults(AuthState, comp_service[c]), id \in MsgIds :
      \E fails \in IF la.raised = "none" THEN BOOLEAN ELSE {FALSE} :
        LET r == FullMessageRun(la, id, fails) IN
        /\ c = "retriever"
        /\ SetComponent(c, la)
        /\ ret' = [NoRet EXCEPT !.op = "get_full_message", !.comp = c,
                                !.raised = r.raised, !.arg = <<id>>,
                                !.items = r.value,
                                !.failed = IF fails THEN {1} ELSE {}]
        /\ log' = r.log
        /\ UNCHANGED <<files, exports>>

\* FetchAll when the loop ends at the first fetch that fails
RECURSIVE FetchAllStopAtFailure(_, _, _, _)
FetchAllStopAtFailure(h, ids, failed, i) ==
    IF i > Len(ids)
    THEN [items |-> <<>>, log |-> <<>>]
    ELSE LET one == RemoteGet(h, ids[i], i \in failed) IN
         IF i \in failed
         THEN [items |-> <<>>, log |-> one.log]
         ELSE LET rest == FetchAllStopAtFailure(h, ids, failed, i + 1) IN
              [items |-> one.value \o rest.items, log |-> one.log \o rest.log]

\* The loop of get_multiple_messages() from position i on: one
\* get_full_message per id; `if message: messages.append(message)`.
\* failed is the set of positions whose fetch raises.  The call holds a
\* handle by now, so the `if not self.service` of get_full_message finds it.
\* Gives [items, log].
RECURSIVE FetchAll(_, _, _, _)
FetchAll(h, ids, failed, i) ==
    IF i > Len(ids)
    THEN [items |-> <<>>, log |-> <<>>]
    ELSE LET one  == RemoteGet(h, ids[i], i \in failed)
             rest == FetchAll(h, ids, failed, i + 1) IN
         [items |-> one.value \o rest.items, log |-> one.log \o rest.log]

\* get_multiple_messages(message_ids) after its lazy authentication went as
\* la.  Gives [raised, items, log].
MultipleRun(la, ids, failed) ==
    IF la.raised # "none"
    THEN [raised |-> la.raised, items |-> <<>>, log |-> la.log]
    ELSE LET r == FetchAll(la.svc, ids, failed, 1) IN
         [raised |-> "none", items |-> r.items, log |-> la.log \o r.log]

GetMultipleMessages(c) ==
    \E la \in LazyResults(AuthState, comp_service[c]), ids \in IdLists :
      \E failed \in IF la.raised = "none" THEN SUBSET DOMAIN ids ELSE {{}} :
        LET r == MultipleRun(la, ids, failed) IN
        /\ c = "retriever"
        /\ SetComponent(c, la)
        /\ ret' = [NoRet EXCEPT !.op = "get_multiple_messages", !.comp = c,
                                !.raised = r.raised, !.arg = ids,
                                !.items = r.items, !.failed = failed]
        /\ log' = r.log
        /\ UNCHANGED <<files, exports>>

\* ------------------------------------------------------------ the exports
\* One second of the clock, as strftime("%Y%m%d_%H%M%S") prints it
Stamps == 1..MaxStamp

OutputPrefix == "gmail_export"
Queries == {"is:inbox"}

\* f"{output_prefix}_{timestamp}.{ext}"
FileName(prefix, stamp, ext) == [prefix |-> prefix, stamp |-> stamp, ext |-> ext]

\* The ids of a sequence of messages
IdsOf(messages) == [i \in DOMAIN messages |-> messages[i].id]

\* WriteFile when nothing is written after open(filename, 'w')
WriteFileEmpty(fs, name, messages) ==
    {f \in fs : f.name # name} \cup {[name |-> name, content |-> <<>>]}

\* The disk after open(filename, 'w') and the writes that follow: the file
\* holds the records of the messages given
WriteFile(fs, name, messages) ==
    {f \in fs : f.name # name} \cup {[name |-> name, content |-> IdsOf(messages)]}

\* The environment's answer to the three writes of one export: "ok", or
\* "error" when open() raises
WriteOutcomes == [json : {"ok", "error"}, csv : {"ok", "error"},
                  txt : {"ok", "error"}]

\* save_messages_json(messages, filename).  Gives [files, log].
SaveMessagesJson(fs, messages, name, outcome) ==
    IF outcome = "ok"
    THEN [files |-> WriteFile(fs, name, messages),
          log |-> <<Event("write_json", None, NoCreds, name.stamp)>>]
    ELSE [files |-> fs,
          log |-> <<Raising(Event("write_json", None, NoCreds, name.stamp),
                            "OSError"),
                    Report("Error saving to JSON")>>]

\* save_messages_csv(messages, filename): the file is opened for writing
\* before `if not messages` is looked at.  Gives [files, log].
SaveMessagesCsv(fs, messages, name, outcome) ==
    CASE outcome # "ok" ->
            [files |-> fs,
             log |-> <<Raising(Event("write_csv", None, NoCreds, name.stamp),
                               "OSError"),
                       Report("Error saving to CSV")>>]
      [] messages = <<>> ->
            [files |-> WriteFile(fs, name, <<>>),
             log |-> <<Event("write_csv", None, NoCreds, name.stamp),
                       Report("No messages to save")>>]
      [] OTHER ->
            [files |-> WriteFile(fs, name, messages),
             log |-> <<Event("write_csv", None, NoCreds, name.stamp)>>]

\* save_messages_text(messages, filename).  Gives [files, log].
SaveMessagesText(fs, messages, name, outcome) ==
    IF outcome = "ok"
    THEN [files |-> WriteFile(fs, name, messages),
          log |-> <<Event("write_txt", None, NoCreds, name.stamp)>>]
    ELSE [files |-> fs,
          log |-> <<Raising(Event("write_txt", None, NoCreds, name.stamp),
                            "OSError"),
                    Report("Error saving to text")>>]

\* The message lists a caller passes to a save method
MessageLists == {[i \in DOMAIN ids |-> Full(ids[i])] : ids \in IdLists}

\* A save method called by the user of a retriever, ext the extension of
\* the target file
SaveCall(c, op, ext) ==
    \E messages \in MessageLists, stamp \in Stamps, outcome \in {"ok", "error"} :
        LET name == FileName(OutputPrefix, stamp, ext)
            r == CASE op = "save_messages_json" ->
                          SaveMessagesJson(files, messages, name, outcome)
                   [] op = "save_messages_csv" ->
                          SaveMessagesCsv(files, messages, name, outcome)
                   [] OTHER ->
                          SaveMessagesText(files, messages, name, outcome)
        IN
        /\ c = "retriever"
        /\ c \in constructed
        /\ files' = r.files
        /\ ret' = [NoRet EXCEPT !.op = op, !.comp = c, !.items = messages,
                                !.failed = IF outcome = "ok" THEN {} ELSE {1}]
        /\ log' = r.log
        /\ UNCHANGED <<credentials_file, token_file, auth_service, builds,
                       constructed, comp_service, exports>>

SaveJson(c) == SaveCall(c, "save_messages_json", "json")
SaveCsv(c) == SaveCall(c, "save_messages_csv", "csv")
SaveText(c) == SaveCall(c, "save_messages_text", "txt")

\* `return {'message_count': 0, 'files_created': []}`
EmptySummary == [message_count |-> 0, files_created |-> <<>>]

\* ExportFiles when a failed write ends the export of the formats after it
ExportFilesStopAtFailure(fs, query, messages, stamp, w) ==
    LET json_file == FileName(OutputPrefix, stamp, "json")
        csv_file  == FileName(OutputPrefix, stamp, "csv")
        text_file == FileName(OutputPrefix, stamp, "txt")
        none == [files |-> fs, log |-> <<>>]
        j == SaveMessagesJson(fs, messages, json_file, w.json)
        c == IF w.json = "ok"
             THEN SaveMessagesCsv(j.files, messages, csv_file, w.csv)
             ELSE [none EXCEPT !.files = j.files]
        t == IF w.json = "ok" /\ w.csv = "ok"
             THEN SaveMessagesText(c.files, messages, text_file, w.txt)
             ELSE [none EXCEPT !.files = c.files]
    IN  [summary |-> [search_query |-> query,
                      message_count |-> Len(messages),
                      files_created |-> <<json_file, csv_file, text_file>>,
                      timestamp |-> stamp],
         files |-> t.files,
         log |-> j.log \o c.log \o t.log]

\* Step 4 of export_search_results: the three exports under one timestamp
\* and the summary.  Gives [summary, files, log].
ExportFiles(fs, query, messages, stamp, w) ==
    LET json_file == FileName(OutputPrefix, stamp, "json")
        csv_file  == FileName(OutputPrefix, stamp, "csv")
        text_file == FileName(OutputPrefix, stamp, "txt")
        j == SaveMessagesJson(fs, messages, json_file, w.json)
        c == SaveMessagesCsv(j.files, messages, csv_file, w.csv)
        t == SaveMessagesText(c.files, messages, text_file, w.txt)
    IN  [summary |-> [search_query |-> query,
                      message_count |-> Len(messages),
                      files_created |-> <<json_file, csv_file, text_file>>,
                      timestamp |-> stamp],
         files |-> t.files,
         log |-> j.log \o c.log \o t.log]

\* NothingToExport without the early return
NothingToExportUnchecked(search_results) == FALSE

\* `if not search_results:`
NothingToExport(search_results) == search_results = <<>>

\* The environment's answers to the part of an export that follows a search
\* with hits
ExportInputs(ids) ==
    [failed : SUBSET DOMAIN ids, stamp : Stamps, w : WriteOutcomes]

NoExportInput == [failed |-> {}, stamp |-> 1,
                  w |-> [json |-> "ok", csv |-> "ok", txt |-> "ok"]]

\* export_search_results(search_query, max_results, output_prefix) of a
\* retriever holding svc, on disk fs.  la1 is how the lazy authentication of
\* the Searcher it constructs went, in the answers to the search; from
\* la1.auth on, la2 is how the retriever's own lazy authentication in
\* get_multiple_messages went, x the answers to what follows.
\* Gives [raised, summary, svc, auth, files, log].
ExportRun(svc, fs, query, la1, in, la2, x) ==
    LET s == SearchRun(la1, in) IN
    IF s.raised # "none"
    THEN [raised |-> s.raised, summary |-> {}, svc |-> svc, auth |-> la1.auth,
          files |-> fs, log |-> s.log]
    ELSE IF NothingToExport(s.items)
    THEN [raised |-> "none", summary |-> {EmptySummary}, svc |-> svc,
          auth |-> la1.auth, files |-> fs, log |-> s.log]
    ELSE
      LET m == MultipleRun(la2, IdsOf(s.items), x.failed) IN
      IF m.raised # "none"
      THEN [raised |-> m.raised, summary |-> {}, svc |-> la2.svc,
            auth |-> la2.auth, files |-> fs, log |-> s.log \o m.log]
      ELSE
        LET e == ExportFiles(fs, query, m.items, x.stamp, x.w) IN
        [raised |-> "none", summary |-> {e.summary}, svc |-> la2.svc,
         auth |-> la2.auth, files |-> e.files,
         log |-> s.log \o m.log \o e.log]

\* Whether the export reaches get_multiple_messages
Retrieves(la1, in) ==
    LET s == SearchRun(la1, in) IN
    s.raised = "none" /\ ~NothingToExport(s.items)

ExportSearchResults(c) ==
    \E query \in Queries,
       la1 \in LazyResults(AuthState, GetServiceValue(AuthState)) :
      \E in \in IF la1.raised = "none" THEN SearchInputs ELSE {NoInput} :
        \E la2 \in IF Retrieves(la1, in)
                   THEN LazyResults(la1.auth, comp_service[c])
                   ELSE {la1} :
          \E x \in IF Retrieves(la1, in) /\ la2.raised = "none"
                   THEN ExportInputs(in.listed) ELSE {NoExportInput} :
            LET r == ExportRun(comp_service[c], files, query, la1, in, la2, x) IN
            /\ c = "retriever"
            /\ c \in constructed
            /\ exports < MaxExports
            /\ exports' = exports + 1
            /\ SetAuth(r.auth)
            /\ comp_service' = [comp_service EXCEPT ![c] = r.svc]
            /\ files' = r.files
            /\ ret' = [NoRet EXCEPT
                         !.op = "export_search_results", !.comp = c,
                         !.raised = r.raised, !.summary = r.summary,
                         !.listed = in.listed,
                         !.failed = IF in.failAt = 0 THEN {} ELSE {in.failAt}]
            /\ log' = r.log
            /\ UNCHANGED constructed

\* ------------------------------------------- bodies, attachments and dates
\* Text is a sequence of characters.  The body data of a part is the
\* url-safe base64 form of a text, or something that is no base64 at all.
Encoded(text) == [wellformed |-> TRUE, text |-> text]
Garbage == [wellformed |-> FALSE, text |-> <<>>]

\* A part of the payload tree: data is empty when the part's body has no
\* 'data' key, filename is "" when the part names no file
Part(mimeType, data, size, filename, parts) ==
    [mimeType |-> mimeType, data |-> data, size |-> size,
     filename |-> filename, parts |-> parts]

PlainA  == Part("text/plain", {Encoded(<<"A">>)}, 1, "", <<>>)
HtmlH   == Part("text/html", {Encoded(<<"<", "b", ">", "H">>)}, 4, "", <<>>)
Garbled == Part("text/plain", {Garbage}, 3, "", <<>>)
Pdf     == Part("application/pdf", {Encoded(<<"B">>)}, 5, "a.pdf", <<>>)
Note    == Part("text/plain", {Encoded(<<"B">>)}, 1, "n.txt", <<>>)
Empty   == Part("text/plain", {}, 0, "", <<>>)

Leaves == {PlainA, HtmlH, Garbled, Pdf, Note, Empty}

\* Sequences of one or two elements of a set
OneOrTwo(S) == {<<x>> : x \in S} \cup {<<x, y>> : x \in S, y \in S}

\* Parts with sub-parts: a multipart container, or a part that carries text
\* of its own besides its sub-parts
Level1 ==
    {Part("multipart/mixed", {}, 0, "", ps) : ps \in OneOrTwo(Leaves)}
        \cup {Part("text/plain", {Encoded(<<"A">>)}, 1, "", ps) : ps \in OneOrTwo(Leaves)}

\* Containers of a part with sub-parts, alone or beside a leaf
Level2 ==
    {Part("multipart/mixed", {}, 0, "", ps) :
        ps \in {<<n>> : n \in Level1}
                \cup {<<l, n>> : l \in Leaves, n \in Level1}
                \cup {<<n, l>> : n \in Level1, l \in Leaves}}

Payloads == Leaves \cup Level1 \cup Level2

\* The Date header: the text of an instant, with or without a trailing
\* " (UTC)" comment, in the RFC 2822 form or in some other form
DateHeaders == [instant : {1}, comment : BOOLEAN, rfc : BOOLEAN]

\* A full message: payload and date hold at most one element (the key
\* may be absent)
Messages ==
    {[id |-> 1, payload |-> {p}, date |-> d] :
        p \in Payloads, d \in {{}} \cup {{h} : h \in {x \in DateHeaders : x.comment = x.rfc}}}
    \cup {[id |-> 1, payload |-> {}, date |-> {h}] : h \in DateHeaders}
    \cup {[id |-> 1, payload |-> {}, date |-> {}]}

\* decode_base64(data).  Gives [text, log].
DecodeBase64(data) ==
    IF data.wellformed
    THEN [text |-> data.text, log |-> <<Event("b64decode", None, NoCreds, 0)>>]
    ELSE [text |-> <<>>,
          log |-> <<Raising(Event("b64decode", None, NoCreds, 0), "binascii.Error")>>]

\* re.sub(r'<[^>]+>', '', text): from a "<" up to the next ">", when at
\* least one character stands between them
RECURSIVE StripTags(_)
StripTags(text) ==
    IF text = <<>> THEN <<>>
    ELSE LET closing == {j \in 2..Len(text) : text[j] = ">"}
             first == CHOOSE j \in closing : \A k \in closing : j <= k
         IN  IF Head(text) = "<" /\ closing # {} /\ first >= 3
             THEN StripTags(SubSeq(text, first + 1, Len(text)))
             ELSE <<Head(text)>> \o StripTags(Tail(text))

\* The text a part contributes by itself.  Gives [text, log].
OwnText(payload) ==
    IF payload.data = {} THEN [text |-> <<>>, log |-> <<>>]
    ELSE LET d == DecodeBase64(CHOOSE x \in payload.data : TRUE) IN
         CASE payload.mimeType = "text/plain" -> d
           [] payload.mimeType = "text/html" -> [d EXCEPT !.text = StripTags(d.text)]
           [] OTHER -> [text |-> <<>>, log |-> <<>>]

\* ExtractFromPayload with the sub-parts before the part's own text
RECURSIVE ExtractFromPayloadPostOrder(_)
RECURSIVE ExtractFromPartsPostOrder(_, _)
ExtractFromPartsPostOrder(parts, i) ==
    IF i > Len(parts) THEN [text |-> <<>>, log |-> <<>>]
    ELSE LET one == ExtractFromPayloadPostOrder(parts[i])
             rest == ExtractFromPartsPostOrder(parts, i + 1)
         IN  [text |-> one.text \o rest.text, log |-> one.log \o rest.log]

ExtractFromPayloadPostOrder(payload) ==
    LET own == OwnText(payload)
        sub == ExtractFromPartsPostOrder(payload.parts, 1)
    IN  [text |-> sub.text \o own.text, log |-> sub.log \o own.log]

\* extract_from_payload(payload), and its loop over payload['parts'] from
\* position i on.  Give [text, log].
RECURSIVE ExtractFromPayload(_)
RECURSIVE ExtractFromParts(_, _)
ExtractFromParts(parts, i) ==
    IF i > Len(parts) THEN [text |-> <<>>, log |-> <<>>]
    ELSE LET one == ExtractFromPayload(parts[i])
             rest == ExtractFromParts(parts, i + 1)
         IN  [text |-> one.text \o rest.text, log |-> one.log \o rest.log]

ExtractFromPayload(payload) ==
    LET own == OwnText(payload)
        sub == ExtractFromParts(payload.parts, 1)
    IN  [text |-> own.text \o sub.text, log |-> own.log \o sub.log]

\* extract_email_body(message).  Gives [text, log].
ExtractEmailBodyValue(message) ==
    IF message.payload = {} THEN [text |-> <<>>, log |-> <<>>]
    ELSE ExtractFromPayload(CHOOSE p \in message.payload : TRUE)

\* The descriptor appended for a part that names a file
Attachment(part) ==
    [filename |-> part.filename, mimeType |-> part.mimeType, size |-> part.size]

\* find_attachments(payload), and its loop over payload['parts'] from
\* position i on: the descriptors appended, in the order appended
RECURSIVE FindAttachments(_)
RECURSIVE FindInParts(_, _)
FindInParts(parts, i) ==
    IF i > Len(parts) THEN <<>>
    ELSE (IF parts[i].filename # "" THEN <<Attachment(parts[i])>> ELSE <<>>)
             \o FindAttachments(parts[i])
             \o FindInParts(parts, i + 1)

FindAttachments(payload) == FindInParts(payload.parts, 1)

\* The Date header as it is read, and as isoformat() prints the instant
DateText(h) == [form |-> IF h.rfc THEN "rfc2822" ELSE "other",
                instant |-> h.instant, comment |-> h.comment]
IsoFormat(instant) == [form |-> "iso8601", instant |-> instant, comment |-> FALSE]

\* The parsing of the Date header: nothing when the header is absent, the
\* ISO form when strptime accepts the text before " (", else the raw text.
\* Gives [date, log], date holding at most one element.
ParseDate(date) ==
    IF date = {} THEN [date |-> {}, log |-> <<>>]
    ELSE LET h == CHOOSE x \in date : TRUE IN
         IF h.rfc
         THEN [date |-> {IsoFormat(h.instant)},
               log |-> <<Event("strptime", None, NoCreds, 0)>>]
         ELSE [date |-> {DateText(h)},
               log |-> <<Raising(Event("strptime", None, NoCreds, 0), "ValueError")>>]

\* extract_message_metadata(message).  Gives [metadata, log].
ExtractMessageMetadataValue(message) ==
    LET attachments == IF message.payload = {} THEN <<>>
                       ELSE FindAttachments(CHOOSE p \in message.payload : TRUE)
        parsed == ParseDate(message.date)
    IN  [metadata |-> [id |-> message.id,
                       date |-> parsed.date,
                       date_raw |-> {DateText(h) : h \in message.date},
                       attachments |-> attachments,
                       attachment_count |-> Len(attachments)],
         log |-> parsed.log]

\* The message at hand is kept in ret.message from one call to the next
ExtractEmailBody(c) ==
    \E m \in ret.message :
        LET r == ExtractEmailBodyValue(m) IN
        /\ c = "retriever"
        /\ c \in constructed
        /\ ret' = [NoRet EXCEPT !.op = "extract_email_body", !.comp = c,
                                !.message = {m}, !.body = r.text]
        /\ log' = r.log
        /\ UNCHANGED <<credentials_file, token_file, auth_service, builds,
                       constructed, comp_service, files, exports>>

ExtractMessageMetadata(c) ==
    \E m \in ret.message :
        LET r == ExtractMessageMetadataValue(m) IN
        /\ c = "retriever"
        /\ c \in constructed
        /\ ret' = [NoRet EXCEPT !.op = "extract_message_metadata", !.comp = c,
                                !.message = {m}, !.metadata = {r.metadata}]
        /\ log' = r.log
        /\ UNCHANGED <<credentials_file, token_file, auth_service, builds,
                       constructed, comp_service, files, exports>>

\* ------------------------------------------------------- the specification
Init ==
    /\ AuthInit
    /\ ComponentInit
    /\ files = {}
    /\ exports = 0
    /\ ret = NoRet
    /\ log = <<>>

\* The operations every specification has: the authenticator's, the
\* construction of the components and the environment's steps.
AuthNext ==
    \/ Authenticate
    \/ GetService
    \/ IsAuthenticated
    \/ OperatorSetsCredentialsFile
    \/ TokenExpires
    \/ \E c \in Components : Construct(c)
    \/ \E c \in Components : ComponentAuthenticate(c)

SearchNext ==
    \/ Search("searcher")
    \/ GetMessageCount("searcher")

DateRangeNext ==
    \/ SearchByDateRange("searcher")

RetrieveNext ==
    \/ GetFullMessage("retriever")
    \/ GetMultipleMessages("retriever")

ExportNext ==
    \/ ExportSearchResults("retriever")

SaveNext ==
    \/ SaveJson("retriever")
    \/ SaveCsv("retriever")
    \/ SaveText("retriever")

ExtractNext ==
    \/ ExtractEmailBody("retriever")
    \/ ExtractMessageMetadata("retriever")

Next ==
    \/ AuthNext \/ SearchNext \/ RetrieveNext \/ ExportNext \/ SaveNext
    \/ ExtractNext \/ DateRangeNext

Spec == Init /\ [][Next]_vars

\* The authenticator and the components that bind to it
SpecAuth == Init /\ [][AuthNext]_vars

\* ... with the searcher's operations
SpecSearch == Init /\ [][AuthNext \/ SearchNext]_vars

\* ... with the searcher's search by date range
SpecDateRange == Init /\ [][AuthNext \/ DateRangeNext]_vars

\* ... with the retriever's fetch operations
SpecRetrieve == Init /\ [][AuthNext \/ RetrieveNext]_vars

\* ... with the searcher's and the retriever's remote operations
SpecRemote == Init /\ [][AuthNext \/ SearchNext \/ RetrieveNext]_vars

\* ... with the retriever's export workflow, up to the last export
SpecExport == Init /\ [][(exports < MaxExports /\ AuthNext) \/ ExportNext]_vars

\* The export workflow as gmail_retriever.main() runs it: nothing calls the
\* authenticator's authenticate() but the components themselves
LazyNext ==
    \/ OperatorSetsCredentialsFile
    \/ TokenExpires
    \/ \E c \in Components : Construct(c)
    \/ \E c \in Components : ComponentAuthenticate(c)

SpecLazy == Init /\ [][(exports < MaxExports /\ LazyNext) \/ ExportNext]_vars

\* The save methods of a retriever, called directly
\* (they touch nothing of the authenticator: one initial state of it is
\* enough, the credentials file in place and no token stored yet)
InitSave == Init /\ credentials_file /\ token_file = NoCreds

SpecSave == InitSave /\ [][(\E c \in Components : Construct(c)) \/ SaveNext]_vars

\* The extraction methods of a retriever constructed on a fresh
\* authenticator, with a full message at hand
InitExtract ==
    /\ AuthInit /\ credentials_file /\ token_file = NoCreds
    /\ constructed = {"retriever"}
    /\ comp_service = [c \in Components |-> None]
    /\ files = {}
    /\ exports = 0
    /\ \E m \in Messages : ret = [NoRet EXCEPT !.message = {m}]
    /\ log = <<>>

SpecExtract == InitExtract /\ [][ExtractNext]_vars

\* ------------------------------------------------------------------ claims
\* The calls of a log, without the printed reports
Calls(l) == SelectSeq(l, LAMBDA e : e.ev # "print")

\* No build between positions j and i of l (j < i)
SameAuthentication(l, j, i) ==
    \A k \in DOMAIN l : (j < k /\ k < i) => l[k].ev # "build"

\* The authenticate() run that reaches the build at position i of l loaded
\* an invalid credential from the token store
LoadedInvalid(l, i) ==
    \E j \in DOMAIN l :
        /\ j < i /\ l[j].ev = "load_token" /\ ~l[j].cred.valid
        /\ SameAuthentication(l, j, i)

\* ... and got a credential from a refresh or from the consent flow
ObtainedNew(l, i) ==
    \E k \in DOMAIN l :
        /\ k < i /\ l[k].ev \in {"refresh", "consent_flow"} /\ l[k].err = "none"
        /\ SameAuthentication(l, k, i)

\* C1: whenever authenticate() builds the service handle, the credential it
\* binds is valid, and a credential loaded invalid has first been refreshed
\* with success or replaced by one from the consent flow.
C1_BoundCredentialValid ==
    \A i \in DOMAIN log :
        log[i].ev = "build" =>
            /\ log[i].cred.valid
            /\ LoadedInvalid(log, i) => ObtainedNew(log, i)

\* C1 witness: a handle was built after an expired credential was loaded
C1_Witness ==
    \E i \in DOMAIN log :
        /\ log[i].ev = "build" /\ log[i].err = "none"
        /\ LoadedInvalid(log, i)

\* C2: with no credentials file, authenticate() fails with the
\* missing-credentials error, makes no call at all (no refresh, no consent
\* flow, no build, no token-store read or write) and leaves the token store
\* and the cached handle as they were.
C2_MissingCredentialsNoSideEffect ==
    [][(ret'.op = "authenticate" /\ ~credentials_file) =>
          /\ ret'.raised = "FileNotFoundError"
          /\ log' = <<>>
          /\ token_file' = token_file
          /\ auth_service' = auth_service]_vars

\* C2 witness: authenticate() failed for the missing file while a handle
\* from an earlier call was cached
C2_Witness ==
    /\ ret.op = "authenticate" /\ ret.raised = "FileNotFoundError"
    /\ ~credentials_file
    /\ auth_service # None

\* C3: a refresh the provider rejects does not make authenticate() raise:
\* the consent flow is the next call, the credential it gives is written to
\* the token store right after, and only then is the handle built, bound to
\* that credential, and returned.
C3_RefreshRejectedFallsBackToFlow ==
    LET calls == Calls(log) IN
    \A i \in DOMAIN calls :
        (calls[i].ev = "refresh" /\ calls[i].err = "RefreshError") =>
            /\ ret.raised # "RefreshError"
            /\ i + 1 \in DOMAIN calls
            /\ calls[i + 1].ev = "consent_flow"
            /\ \A k \in DOMAIN calls :
                   (k > i /\ calls[k].ev = "build") =>
                       /\ k = i + 3
                       /\ calls[i + 2].ev = "save_token"
                       /\ calls[i + 2].err = "none"
                       /\ calls[i + 2].cred = FlowCreds
                       /\ calls[k].cred = FlowCreds
            /\ calls[i + 1].err = "none" =>
                   /\ i + 2 \in DOMAIN calls
                   /\ calls[i + 2].ev = "save_token"
                   /\ calls[i + 2].cred = FlowCreds
                   /\ calls[i + 2].err = "none" =>
                          /\ token_file = FlowCreds
                          /\ i + 3 \in DOMAIN calls
                          /\ calls[i + 3].ev = "build"
                          /\ calls[i + 3].err = "none" =>
                                 /\ ret.raised = "none"
                                 /\ ret.handle = calls[i + 3].h

\* C3 witness: authenticate() returned a handle after a rejected refresh
C3_Witness ==
    /\ ret.op = "authenticate" /\ ret.raised = "none" /\ ret.handle # None
    /\ \E i \in DOMAIN log :
           log[i].ev = "refresh" /\ log[i].err = "RefreshError"

\* The token-store writes of a log that succeeded
Saves(l) == SelectSeq(l, LAMBDA e : e.ev = "save_token" /\ e.err = "none")

\* The authenticate() call found a valid credential in the token store
LoadedValid(l) == \E j \in DOMAIN l : l[j].ev = "load_token" /\ l[j].cred.valid

\* C4 as stated: every authenticate() call that returns a handle has written
\* the credential to the token store during the call, also when the stored
\* credential was found valid.
C4_TokenWrittenOnEverySuccess ==
    (ret.op = "authenticate" /\ ret.raised = "none") => Saves(log) # <<>>

\* C4 as amended: an authenticate() call that returns a handle has written
\* the credential to the token store, before the build, exactly when it
\* obtained that credential by a refresh or by the consent flow; when the
\* stored credential was found valid the call writes nothing.
C4_TokenWrittenWhenObtained ==
    (ret.op = "authenticate" /\ ret.raised = "none") =>
        LET calls == Calls(log)
            n     == Len(calls)
        IN  /\ calls[n].ev = "build"
            /\ IF LoadedValid(log)
               THEN /\ Saves(log) = <<>>
                    /\ \A i \in DOMAIN log : log[i].ev # "save_token"
               ELSE /\ Len(Saves(log)) = 1
                    /\ calls[n - 1] = Saves(log)[1]
                    /\ calls[n - 1].cred = calls[n].cred
                    /\ token_file = calls[n].cred

\* C4 witness: a handle returned on a stored credential that was still valid
C4_Witness ==
    /\ ret.op = "authenticate" /\ ret.raised = "none"
    /\ LoadedValid(log)

\* The calls of a log that go to the mail service
RemoteCalls(l) == Only(l, {"list", "get_metadata", "get_full"})

\* C5 as stated: the service handle is built at most once, and every remote
\* call of every component goes through that one handle, the authenticator's.
C5_OneSharedHandle ==
    /\ builds <= 1
    /\ \A i \in DOMAIN log :
           log[i].ev \in {"list", "get_metadata", "get_full"} =>
               log[i].h = auth_service

\* C6: get_service() returns the handle the latest successful authenticate()
\* returned (handles are numbered in the order they are built, so that is
\* handle number `builds`), None before the first; is_authenticated() is
\* true exactly from the first successful authenticate() on.
C6_ServiceHandleCached ==
    /\ ret.op = "get_service" => ret.handle = builds
    /\ ret.op = "is_authenticated" => ret.flag = (builds > 0)
    /\ (ret.op = "authenticate" /\ ret.raised = "none") =>
           ret.handle = builds /\ ret.handle # None

\* C6 witness: get_service() gave a handle
C6_Witness == ret.op = "get_service" /\ ret.handle # None

\* C7: search() returns no partial result: when the list call or any
\* metadata call fails it returns the empty sequence and reports the error;
\* when none fails it has made one metadata call per listed id and returns
\* one item per listed id, in the order listed.
C7_SearchAllOrNothing ==
    (ret.op = "search" /\ ret.raised = "none") =>
        IF ret.failed = {}
        THEN /\ ret.items = [i \in DOMAIN ret.listed |-> Item(ret.listed[i])]
             /\ Len(Only(log, {"list"})) = 1
             /\ [i \in DOMAIN ret.listed |-> Only(log, {"get_metadata"})[i].id]
                    = ret.listed
             /\ Len(Only(log, {"get_metadata"})) = Len(ret.listed)
        ELSE /\ ret.items = <<>>
             /\ log[Len(log)] = Report("Error during search")

\* C7 witness: the second of two metadata calls failed after the first had
\* given an item
C7_Witness ==
    /\ ret.op = "search" /\ ret.raised = "none"
    /\ Len(ret.listed) = 2 /\ ret.failed = {3}
    /\ ret.items = <<>>

RemoteOps == {"search", "get_message_count", "get_full_message",
              "get_multiple_messages"}

\* C8 as stated: search, get_message_count, get_full_message and
\* get_multiple_messages never raise, whether the component holds a handle
\* or not.
C8_NeverRaises == ret.op \in RemoteOps => ret.raised = "none"

\* The positions of a sequence that are not in a set, in order
Kept(n, skipped) == SelectSeq([i \in 1..n |-> i], LAMBDA i : i \notin skipped)

\* C8 as amended: a failing list or get call is never propagated; the call
\* reports it and returns the benign result.  What these operations do
\* raise is the failure of the authenticate() they run first when the
\* component holds no handle: then no list or get call was made and the
\* component still holds no handle.
C8_OnlyAuthenticationRaises ==
    ret.op \in RemoteOps =>
        /\ ret.raised # "none" =>
               /\ comp_service[ret.comp] = None
               /\ RemoteCalls(log) = <<>>
               /\ ret.items = <<>> /\ ret.count = 0
        /\ \A i \in DOMAIN log :
               (log[i].ev \in {"list", "get_metadata", "get_full"}
                    /\ log[i].err # "none") =>
                   /\ ret.raised = "none"
                   /\ i + 1 \in DOMAIN log
                   /\ log[i + 1].ev = "print"
        /\ (ret.raised = "none" /\ ret.failed # {}) =>
               CASE ret.op = "search" -> ret.items = <<>>
                 [] ret.op = "get_message_count" -> ret.count = 0
                 [] ret.op = "get_full_message" -> ret.items = <<>>
                 [] OTHER -> Len(ret.items) = Len(Kept(Len(ret.arg), ret.failed))

\* C8 witness: get_full_message() returned None for a failed fetch
C8_Witness ==
    /\ ret.op = "get_full_message" /\ ret.raised = "none"
    /\ ret.failed = {1} /\ ret.items = <<>>

\* C9: get_multiple_messages() makes one full-format fetch per input id, in
\* input order, and returns the messages of exactly the fetches that
\* succeeded, in input order, with nothing in the place of a failed one.
C9_FetchedSubsequence ==
    (ret.op = "get_multiple_messages" /\ ret.raised = "none") =>
        LET gets == Only(log, {"get_full"})
            kept == Kept(Len(ret.arg), ret.failed)
        IN  /\ [i \in DOMAIN gets |-> gets[i].id] = ret.arg
            /\ \A i \in DOMAIN gets : (gets[i].err # "none") = (i \in ret.failed)
            /\ ret.items = [k \in DOMAIN kept |-> Full(ret.arg[kept[k]])]

\* C9 witness: of two ids the first fetch failed and the second is returned
C9_Witness ==
    /\ ret.op = "get_multiple_messages" /\ ret.raised = "none"
    /\ Len(ret.arg) = 2 /\ ret.failed = {1}
    /\ ret.items = <<Full(ret.arg[2])>>

\* C10: an export whose search gives no hit (nothing listed, or the search
\* failed) returns a summary with message_count 0 and an empty file list,
\* fetches no message in full and leaves the disk as it was.
C10_ZeroHitsNoRetrievalNoWrite ==
    [][(/\ ret'.op = "export_search_results"
        /\ ret'.raised = "none"
        /\ (ret'.listed = <<>> \/ ret'.failed # {})) =>
          /\ ret'.summary # {}
          /\ \A sm \in ret'.summary :
                 sm.message_count = 0 /\ sm.files_created = <<>>
          /\ Only(log', FetchEvents \cup ExportEvents) = <<>>
          /\ files' = files]_vars

\* C10 witness: an export returned after a search that listed nothing
C10_Witness ==
    /\ ret.op = "export_search_results" /\ ret.raised = "none"
    /\ ret.listed = <<>> /\ ret.failed = {}
    /\ ret.summary # {}

\* An export that returned after a search with hits
ExportedHits ==
    /\ ret.op = "export_search_results" /\ ret.raised = "none"
    /\ ret.listed # <<>> /\ ret.failed = {}

\* The write attempts of a log, and the ids of the messages fetched in full
Writes(l) == Only(l, ExportEvents)
Fetched(l) ==
    LET got == SelectSeq(Only(l, FetchEvents), LAMBDA e : e.err = "none")
    IN  [i \in DOMAIN got |-> got[i].id]

\* The extension of the file a write event writes
ExtOf(ev) == CASE ev = "write_json" -> "json"
               [] ev = "write_csv" -> "csv"
               [] OTHER -> "txt"

\* C11 as stated: after an export with N >= 1 hits the three files of one
\* timestamp are on disk, the JSON file holds the N ids the search returned,
\* in order, and message_count is N.
C11_ThreeFilesNMessages ==
    ExportedHits =>
        \E stamp \in Stamps :
            /\ \A ext \in {"json", "csv", "txt"} :
                   \E f \in files : f.name = FileName(OutputPrefix, stamp, ext)
            /\ [name |-> FileName(OutputPrefix, stamp, "json"),
                content |-> ret.listed] \in files
            /\ \A sm \in ret.summary : sm.message_count = Len(ret.listed)

\* C11 as amended: an export with N >= 1 hits asks for the N ids in full, in
\* the order of the search, and attempts the json, csv and txt file under
\* one prefix and one timestamp; every file whose write succeeds is on disk
\* and holds the messages whose fetch succeeded, in the order of the search;
\* message_count is their number.
C11_ExportWritesFetchedMessages ==
    ExportedHits =>
        LET w == Writes(log)
            asked == Only(log, FetchEvents)
            got == Fetched(log)
        IN  /\ [i \in DOMAIN asked |-> asked[i].id] = ret.listed
            /\ [i \in DOMAIN w |-> w[i].ev] = <<"write_json", "write_csv", "write_txt">>
            /\ \A i, j \in DOMAIN w : w[i].id = w[j].id
            /\ \A i \in DOMAIN w :
                   w[i].err = "none" =>
                       [name |-> FileName(OutputPrefix, w[i].id, ExtOf(w[i].ev)),
                        content |-> got] \in files
            /\ \A sm \in ret.summary :
                   /\ sm.message_count = Len(got)
                   /\ sm.files_created =
                          [i \in DOMAIN w |-> FileName(OutputPrefix, w[i].id, ExtOf(w[i].ev))]
            /\ ret.summary # {}

\* C11 witness: two hits, one of them fetched, the JSON file written with it
C11_Witness ==
    /\ ExportedHits
    /\ Len(ret.listed) = 2 /\ Len(Fetched(log)) = 1
    /\ \E f \in files : f.name.ext = "json" /\ f.content = Fetched(log)

\* C12 as stated: every summary an export returns has the four fields
\* search_query, message_count, files_created and timestamp.
C12_SummaryHasFourFields ==
    (ret.op = "export_search_results" /\ ret.raised = "none") =>
        \A sm \in ret.summary :
            DOMAIN sm = {"search_query", "message_count", "files_created",
                         "timestamp"}

\* C13 as stated: every path in files_created names a file this export
\* opened and wrote successfully.
C13_ListedFilesWereCreated ==
    (ret.op = "export_search_results" /\ ret.raised = "none") =>
        \A sm \in ret.summary :
            \A i \in DOMAIN sm.files_created :
                /\ \E f \in files : f.name = sm.files_created[i]
                /\ \E k \in DOMAIN log :
                       /\ log[k].ev \in ExportEvents
                       /\ ExtOf(log[k].ev) = sm.files_created[i].ext
                       /\ log[k].id = sm.files_created[i].stamp
                       /\ log[k].err = "none"

\* C15: an export that has reached its first write attempts the three
\* formats in the order json, csv, txt whatever fails, reports each failed
\* write, and returns its summary without raising.
C15_WriteFailureDoesNotStopExport ==
    (ret.op = "export_search_results" /\ Writes(log) # <<>>) =>
        /\ ret.raised = "none"
        /\ ret.summary # {}
        /\ [i \in DOMAIN Writes(log) |-> Writes(log)[i].ev]
               = <<"write_json", "write_csv", "write_txt">>
        /\ \A i \in DOMAIN log :
               (log[i].ev \in ExportEvents /\ log[i].err # "none") =>
                   /\ i + 1 \in DOMAIN log
                   /\ log[i + 1].ev = "print"

\* C15 witness: the JSON write failed and the text file was written
C15_Witness ==
    /\ ret.op = "export_search_results" /\ ret.raised = "none"
    /\ \E i \in DOMAIN log : log[i].ev = "write_json" /\ log[i].err # "none"
    /\ \E i \in DOMAIN log : log[i].ev = "write_txt" /\ log[i].err = "none"
    /\ \E f \in files : f.name.ext = "txt"

\* C14 as stated: save_messages_csv with an empty message list leaves the
\* disk as it was (no file created, an existing file keeps its content) and,
\* when nothing fails, reports that there is nothing to save.
C14_EmptyCsvWritesNoFile ==
    [][(ret'.op = "save_messages_csv" /\ ret'.items = <<>>) =>
          /\ files' = files
          /\ ret'.failed = {} =>
                 \E i \in DOMAIN log' : log'[i] = Report("No messages to save")]_vars

\* The parts of a payload tree in depth-first pre-order, the root first
RECURSIVE AllParts(_)
RECURSIVE AllOf(_, _)
AllOf(parts, i) ==
    IF i > Len(parts) THEN <<>> ELSE AllParts(parts[i]) \o AllOf(parts, i + 1)

AllParts(payload) == <<payload>> \o AllOf(payload.parts, 1)

\* The payload tree of the message at hand, flattened
PartsOfMessage ==
    LET m == CHOOSE x \in ret.message : TRUE IN
    IF m.payload = {} THEN <<>> ELSE AllParts(CHOOSE p \in m.payload : TRUE)

\* C16 as stated: the attachment list holds the descriptor of every part
\* of the tree that has a non-empty filename, the top-level payload
\* included, and nothing else; attachment_count is its length.
C16_EveryNamedPartRecorded ==
    ret.op = "extract_message_metadata" =>
        LET named == SelectSeq(PartsOfMessage, LAMBDA p : p.filename # "") IN
        \A md \in ret.metadata :
            /\ md.attachments = [i \in DOMAIN named |-> Attachment(named[i])]
            /\ md.attachment_count = Len(md.attachments)

RECURSIVE Concat(_)
Concat(texts) == IF texts = <<>> THEN <<>> ELSE Head(texts) \o Concat(Tail(texts))

\* The text data decodes to: the empty text when it is no base64
Decoded(part) ==
    LET d == CHOOSE x \in part.data : TRUE IN
    IF d.wellformed THEN d.text ELSE <<>>

\* C17 as stated: the body is the concatenation, in pre-order over the part
\* tree, of the decoded text of every text/plain or text/html part with
\* body data; other parts contribute nothing; no payload gives "".
C17_DecodedTextPreOrder ==
    ret.op = "extract_email_body" =>
        ret.body = Concat([i \in DOMAIN PartsOfMessage |->
                      LET p == PartsOfMessage[i] IN
                      IF p.mimeType \in {"text/plain", "text/html"} /\ p.data # {}
                      THEN Decoded(p) ELSE <<>>])

\* C17 as amended: ... of the decoded text of every text/plain part, and of
\* the decoded text with its <...> tags removed of every text/html part,
\* that carries body data; data that cannot be decoded contributes "".
C17_StrippedTextPreOrder ==
    ret.op = "extract_email_body" =>
        ret.body = Concat([i \in DOMAIN PartsOfMessage |->
                      LET p == PartsOfMessage[i] IN
                      CASE p.data = {} -> <<>>
                        [] p.mimeType = "text/plain" -> Decoded(p)
                        [] p.mimeType = "text/html" -> StripTags(Decoded(p))
                        [] OTHER -> <<>>])

\* C17 witness: the text of an HTML part without its tag, then the own text
\* "A" of the part beside it, then the text of that part's sub-part
C17_Witness ==
    /\ ret.op = "extract_email_body"
    /\ ret.body = <<"H", "A", "B">>
    /\ Len(PartsOfMessage) = 5

\* C19 as stated: every error an operation catches (an event that failed
\* without the failure being raised to the caller) is followed by a printed
\* message.
C19_EveryCaughtErrorReported ==
    \A i \in DOMAIN log :
        (/\ log[i].ev # "print"
         /\ log[i].err # "none"
         /\ ~(i = Len(log) /\ ret.raised # "none")) =>
            \E j \in DOMAIN log : j > i /\ log[j].ev = "print"

\* C18: search_by_date_range with neither date fails with ValueError and
\* has made no call at all, of authentication or to the mail service; with
\* only after_date it searches "after:{after_date}", with only before_date
\* "before:{before_date}", with both "after:{after_date} before:{before_date}".
C18_DateRangeQuery ==
    ret.op = "search_by_date_range" =>
        LET after_date == ret.dates[1]
            before_date == ret.dates[2]
        IN  CASE after_date = "" /\ before_date = "" ->
                     /\ ret.raised = "ValueError"
                     /\ log = <<>>
                     /\ ret.query = <<>>
              [] after_date # "" /\ before_date = "" ->
                     /\ ret.raised # "ValueError"
                     /\ ret.query = <<"after:", after_date>>
              [] after_date = "" /\ before_date # "" ->
                     /\ ret.raised # "ValueError"
                     /\ ret.query = <<"before:", before_date>>
              [] OTHER ->
                     /\ ret.raised # "ValueError"
                     /\ ret.query = <<"after:", after_date, " ",
                                      "before:", before_date>>

\* C18 witness: a search with both dates that listed a message
C18_Witness ==
    /\ ret.op = "search_by_date_range" /\ ret.raised = "none"
    /\ ret.dates = <<"2023/01/01", "2023/12/31">>
    /\ ret.listed # <<>>
    /\ \E i \in DOMAIN log : log[i].ev = "list"
====
